---------------------------- MODULE Spec2Model ----------------------------
(***************************************************************************)
(* Flame::EditorCamera (src/Camera/EditorCamera.h) as a state machine.     *)
(*                                                                         *)
(* Numbers.  The camera computes in float.  Here every length, vector      *)
(* component and matrix entry is a fixed-point integer with Scale units to *)
(* 1.0, angles of the pose are whole degrees, mouse coordinates are pixels,*)
(* the rotation speed is kept in tenths of a degree per pixel, durations   *)
(* are nanosecond counts, and the fields of EditorCameraSpecs are kept in  *)
(* thousandths (Fov in milliradians).  Trigonometry is a table of sines    *)
(* rounded to 1/Scale.  Arithmetic below the resolution 1/Scale is not     *)
(* represented, with one exception that decides whether a vector can be    *)
(* normalised at all: see RightOf.                                         *)
(***************************************************************************)
EXTENDS Integers, Sequences, FiniteSets, TLC

\* Fixed-point resolution of the model: Scale units are 1.0f.
Scale == 10000

\* ------------------------------------------------------------------ bounds
\* Operations performed on one camera in a behaviour.
MaxSteps == 2
\* |mYaw| allowed by the model, in degrees.
MaxYaw == 180
\* |component of mPosition| allowed by the model, in whole units.
MaxPos == 12

\* ------------------------------------------------------------- helpers
\* A local variable: F applied to the value v, which F's parameter names.
Let(v, F(_)) == F(v)

Abs(a) == IF a < 0 THEN -a ELSE a

Sign(a) == IF a < 0 THEN -1 ELSE 1

\* a / b rounded to the nearest integer, halves away from zero (b > 0).
Quot(a, b) ==
    LET n == Abs(a)
        q == n \div b
        r == n % b
    IN  Sign(a) * (IF 2 * r >= b THEN q + 1 ELSE q)

RECURSIVE SqrtIter(_, _, _)
SqrtIter(n, lo, hi) ==
    IF lo >= hi THEN lo
    ELSE LET mid == (lo + hi + 1) \div 2
         IN  IF mid * mid <= n THEN SqrtIter(n, mid, hi)
             ELSE SqrtIter(n, lo, mid - 1)

\* sqrt(n) rounded to the nearest integer, 0 <= n < 2^31.
Sqrt(n) ==
    LET f == SqrtIter(n, 0, 46340)
    IN  IF n - f * f > f THEN f + 1 ELSE f

\* ------------------------------------------------------------ trigonometry
\* sin of 0..90 degrees in units of 1/Scale (index d + 1).
SinTable ==
    << 0, 175, 349, 523, 698, 872, 1045, 1219, 1392, 1564,
       1736, 1908, 2079, 2250, 2419, 2588, 2756, 2924, 3090, 3256,
       3420, 3584, 3746, 3907, 4067, 4226, 4384, 4540, 4695, 4848,
       5000, 5150, 5299, 5446, 5592, 5736, 5878, 6018, 6157, 6293,
       6428, 6561, 6691, 6820, 6947, 7071, 7193, 7314, 7431, 7547,
       7660, 7771, 7880, 7986, 8090, 8192, 8290, 8387, 8480, 8572,
       8660, 8746, 8829, 8910, 8988, 9063, 9135, 9205, 9272, 9336,
       9397, 9455, 9511, 9563, 9613, 9659, 9703, 9744, 9781, 9816,
       9848, 9877, 9903, 9925, 9945, 9962, 9976, 9986, 9994, 9998,
       10000 >>

\* sin(glm::radians(d)) for a whole number of degrees d.
Sin(d) ==
    LET r == d % 360
    IN  IF r <= 90 THEN SinTable[r + 1]
        ELSE IF r <= 180 THEN SinTable[180 - r + 1]
        ELSE IF r <= 270 THEN -SinTable[r - 180 + 1]
        ELSE -SinTable[360 - r + 1]

\* cos(glm::radians(d)) for a whole number of degrees d.
Cos(d) == Sin(d + 90)

RECURSIVE AsinIter(_, _, _)
AsinIter(s, lo, hi) ==
    IF lo >= hi THEN lo
    ELSE LET mid == (lo + hi + 1) \div 2
         IN  IF Sin(mid) <= s THEN AsinIter(s, mid, hi)
             ELSE AsinIter(s, lo, mid - 1)

\* glm::degrees(asin(s)), s in units of 1/Scale, |s| <= Scale: the whole
\* degree in -90..90 whose sine is nearest to s.
AsinDeg(s) ==
    LET d == AsinIter(s, -90, 90)
    IN  IF d < 90 /\ Sin(d + 1) - s < s - Sin(d) THEN d + 1 ELSE d

RECURSIVE AtanIter(_, _, _, _)
AtanIter(y, x, lo, hi) ==
    IF lo >= hi THEN lo
    ELSE LET mid == (lo + hi + 1) \div 2
         IN  IF y * Sin(90 - mid) - x * Sin(mid) >= 0 THEN AtanIter(y, x, mid, hi)
             ELSE AtanIter(y, x, lo, mid - 1)

\* atan2(y, x) in whole degrees for y >= 0, x >= 0, not both 0: the degree
\* in 0..90 whose direction is nearest to (x, y).
AtanQuadrant(y, x) ==
    LET d == AtanIter(y, x, 0, 90)
        F(a) == Abs(y * Sin(90 - a) - x * Sin(a))
    IN  IF d < 90 /\ F(d + 1) < F(d) THEN d + 1 ELSE d

\* glm::degrees(atan2(y, x)) in whole degrees; atan2(0, 0) is 0.
Atan2Deg(y, x) ==
    IF x = 0 /\ y = 0 THEN 0
    ELSE LET a == AtanQuadrant(Abs(y), Abs(x))
         IN  IF x >= 0 THEN (IF y >= 0 THEN a ELSE -a)
             ELSE (IF y >= 0 THEN 180 - a ELSE a - 180)

\* ------------------------------------------------------------------ glm::vec3
Add(a, b) == <<a[1] + b[1], a[2] + b[2], a[3] + b[3]>>

Sub(a, b) == <<a[1] - b[1], a[2] - b[2], a[3] - b[3]>>

Neg(a) == <<-a[1], -a[2], -a[3]>>

\* a * s for a scalar s given as the fraction num / den.
Mul(a, num, den) ==
    <<Quot(a[1] * num, den), Quot(a[2] * num, den), Quot(a[3] * num, den)>>

\* The raw sum of products (units of 1/Scale^2 for two scaled vectors).
Dot(a, b) == a[1] * b[1] + a[2] * b[2] + a[3] * b[3]

\* a * b / Scale for |a| <= Scale and any b, without forming a * b.
Times(a, b) == a * (b \div Scale) + Quot(a * (b % Scale), Scale)

\* glm::dot(a, b) in units of 1/Scale, a a unit vector.
DotS(a, b) == Times(a[1], b[1]) + Times(a[2], b[2]) + Times(a[3], b[3])

\* The raw cross product (units multiply like Dot).
Cross(a, b) ==
    << a[2] * b[3] - a[3] * b[2],
       a[3] * b[1] - a[1] * b[3],
       a[1] * b[2] - a[2] * b[1] >>

MaxAbs(a) ==
    LET m == IF Abs(a[1]) >= Abs(a[2]) THEN Abs(a[1]) ELSE Abs(a[2])
    IN  IF m >= Abs(a[3]) THEN m ELSE Abs(a[3])

\* glm::normalize(v) = v * inversesqrt(dot(v, v)), the result in units of
\* 1/Scale.  The argument may be in any unit (only its direction matters);
\* like a float it is first brought to a working magnitude, 10000..20000.
\* A null vector gives 0 * inf = NaN in every component, represented by
\* the null vector (no test of unit length accepts it).
Normalize(v) ==
    Let(MaxAbs(v), LAMBDA m :
        IF m = 0 THEN <<0, 0, 0>>
        ELSE Let(IF m > 20000 THEN Mul(v, 1, (m \div 10000))
                 ELSE Mul(v, 20000 \div m, 1), LAMBDA w :
                     Mul(w, Scale, Sqrt(Dot(w, w)))))

\* ------------------------------------------------------------------ glm::mat4
\* A mat4 is its four columns, each <<x, y, z, w>>.

\* glm::lookAt(eye, center, up), right-handed.
LookAt(eye, center, up) ==
    Let(Normalize(Sub(center, eye)), LAMBDA f :
    Let(Normalize(Cross(f, up)), LAMBDA s :
    Let(Mul(Cross(s, f), 1, Scale), LAMBDA u :
        << <<s[1], u[1], -f[1], 0>>,
           <<s[2], u[2], -f[2], 0>>,
           <<s[3], u[3], -f[3], 0>>,
           <<-DotS(s, eye), -DotS(u, eye), DotS(f, eye), Scale>> >>)))

\* glm::radians(x) = x * pi / 180, x and the result in thousandths.
Radians(x) == Quot(x * 31416, 1800000)

\* tan(fovy / 2) in units of 1/Scale, fovy in milliradians: the series
\* a + a^3/3 + 2a^5/15 + 17a^7/315 of the half angle a.
TanHalf(fovy) ==
    LET a  == fovy * 5
        a2 == Quot(a * a, Scale)
        a3 == Quot(a2 * a, Scale)
        a5 == Quot(a3 * a2, Scale)
        a7 == Quot(a5 * a2, Scale)
    IN  a + Quot(a3, 3) + Quot(2 * a5, 15) + Quot(17 * a7, 315)

\* glm::perspective(fovy, aspect, zNear, zFar), right-handed, depth -1..1;
\* fovy in milliradians, the others in thousandths, the entries in 1/Scale.
Perspective(fovy, aspect, zNear, zFar) ==
    LET t   == TanHalf(fovy)
        m11 == Quot(Scale * Scale, t)
        m00 == Quot(m11 * 1000, aspect)
        m22 == -Quot((zFar + zNear) * Scale, zFar - zNear)
        m32 == -Quot(Quot(2 * zFar * zNear, zFar - zNear) * Scale, 1000)
    IN  << <<m00, 0, 0, 0>>,
           <<0, m11, 0, 0>>,
           <<0, 0, m22, -Scale>>,
           <<0, 0, m32, 0>> >>

\* --------------------------------------------------------- CameraMovement
Forward == "Forward"
Backward == "Backward"
Left == "Left"
Right == "Right"
Up == "Up"
Down == "Down"

CameraMovement == {Forward, Backward, Left, Right, Up, Down}

\* CameraMovementFlags::HasFlag: a flags value is the set of its set bits.
HasFlag(mFlags, movement) == movement \in mFlags

\* ------------------------------------------------------ EditorCameraSpecs
\* The default member initialisers: Fov = glm::radians(45.0f) is 0.785,
\* NearClip 0.1, FarClip 100, AspectRatio 16/9.
DefaultSpecs ==
    [Fov |-> 785, NearClip |-> 100, FarClip |-> 100000, AspectRatio |-> 1778]

\* ----------------------------------------------------------- EditorCamera
VARIABLES
    mCameraSpecs,        \* EditorCameraSpecs
    mPosition,           \* vec3
    mForwardDirection,   \* vec3
    mRightDirection,     \* vec3
    mUpDirection,        \* vec3
    mYaw, mPitch, mRoll, \* degrees
    mMoveSpeed,          \* units per second
    mRotationSpeed,      \* tenths of a degree per pixel
    mLastMouseX, mLastMouseY,
    mView, mProjection,  \* mat4
    op,                  \* history: the operation that led to this state, with its arguments
    steps,               \* history: operations performed so far
    lastRotate,          \* history: mousePos of the latest OnUpdate with rotate, or (0, 0)
    rawPitch             \* history: mPitch before the clamp in the latest OnUpdate with rotate

camVars ==
    << mCameraSpecs, mPosition, mForwardDirection, mRightDirection, mUpDirection,
       mYaw, mPitch, mRoll, mMoveSpeed, mRotationSpeed, mLastMouseX, mLastMouseY,
       mView, mProjection >>

vars == << camVars, op, steps, lastRotate, rawPitch >>

\* The camera object as one value.
Cam ==
    [ mCameraSpecs |-> mCameraSpecs, mPosition |-> mPosition,
      mForwardDirection |-> mForwardDirection, mRightDirection |-> mRightDirection,
      mUpDirection |-> mUpDirection, mYaw |-> mYaw, mPitch |-> mPitch,
      mRoll |-> mRoll, mMoveSpeed |-> mMoveSpeed, mRotationSpeed |-> mRotationSpeed,
      mLastMouseX |-> mLastMouseX, mLastMouseY |-> mLastMouseY,
      mView |-> mView, mProjection |-> mProjection ]

\* The member initialisers of lines 140-158, before the constructor body.
Members ==
    [ mCameraSpecs |-> DefaultSpecs,
      mPosition |-> <<0, 0, 5 * Scale>>,
      mForwardDirection |-> <<0, 0, -Scale>>,
      mRightDirection |-> <<Scale, 0, 0>>,
      mUpDirection |-> <<0, Scale, 0>>,
      mYaw |-> -90, mPitch |-> 0, mRoll |-> 0,
      mMoveSpeed |-> 5, mRotationSpeed |-> 1,
      mLastMouseX |-> 0, mLastMouseY |-> 0,
      mView |-> << <<Scale, 0, 0, 0>>, <<0, Scale, 0, 0>>,
                   <<0, 0, Scale, 0>>, <<0, 0, 0, Scale>> >>,
      mProjection |-> << <<Scale, 0, 0, 0>>, <<0, Scale, 0, 0>>,
                         <<0, 0, Scale, 0>>, <<0, 0, 0, Scale>> >> ]

NanoSecondsTicksInOneSecond == 1000000000

\* The second argument of glm::cross in UpdateView, vec3(0, 1, 0).
WorldUp == <<0, 1, 0>>

\* The sign of cos(glm::radians(90.0f)) = cos(glm::radians(-90.0f)) in
\* float: glm::radians(90.0f) is the float nearest pi/2, a little above it,
\* and the cosine there is -4.37e-8, not 0.
CosHalfPiSign == -1

\* UpdateProjection(): the field of view handed to glm::perspective is
\* glm::radians(mCameraSpecs.Fov).
UpdateProjection(c) ==
    [c EXCEPT !.mProjection =
        Perspective(Radians(c.mCameraSpecs.Fov), c.mCameraSpecs.AspectRatio,
                    c.mCameraSpecs.NearClip, c.mCameraSpecs.FarClip)]

\* The vector normalised into mForwardDirection by UpdateView.
ForwardOf(yaw, pitch) ==
    Normalize(<< Cos(yaw) * Cos(pitch), Sin(pitch) * Scale, Sin(yaw) * Cos(pitch) >>)

\* Mutant of RightOf: the cross product is stored without glm::normalize.
RightOf_NotNormalised(forward, yaw) == Cross(forward, WorldUp)

\* glm::normalize(glm::cross(mForwardDirection, vec3(0, 1, 0))).  The cross
\* product is (-forward.z, 0, forward.x).  At a pitch of +-90 both components
\* are products with cos(glm::radians(+-90.0f)): below the model's
\* resolution, but not 0 in float, so that float normalises the direction
\* (-sin yaw, 0, cos yaw) * CosHalfPiSign where the model's fixed-point
\* product is the null vector.
RightOf(forward, yaw) ==
    LET x == Cross(forward, WorldUp)
    IN  IF x = <<0, 0, 0>>
        THEN Normalize(<< -Sin(yaw) * CosHalfPiSign, 0, Cos(yaw) * CosHalfPiSign >>)
        ELSE Normalize(x)

\* Mutant of UpdateView: the view matrix is rebuilt from the stored basis,
\* which is not derived from mYaw and mPitch again.
UpdateView_KeepsBasis(c) ==
    [c EXCEPT !.mView = LookAt(c.mPosition, Add(c.mPosition, c.mForwardDirection),
                               c.mUpDirection)]

\* UpdateView()
UpdateView(c) ==
    Let(ForwardOf(c.mYaw, c.mPitch), LAMBDA forward :
    Let(RightOf(forward, c.mYaw), LAMBDA right :
    Let(Normalize(Cross(right, forward)), LAMBDA up :
        [c EXCEPT !.mForwardDirection = forward,
                  !.mRightDirection = right,
                  !.mUpDirection = up,
                  !.mView = LookAt(c.mPosition, Add(c.mPosition, forward), up)])))

\* EditorCamera(): the members, then UpdateProjection(), then UpdateView().
Constructed == UpdateView(UpdateProjection(Members))

\* Mutant of SetCameraSpecImpl: the view is refreshed along with the projection.
SetCameraSpecImpl_UpdatesView(c, specs) ==
    UpdateView(UpdateProjection([c EXCEPT !.mCameraSpecs = specs]))

\* SetCameraSpec(specs)
SetCameraSpecImpl(c, specs) ==
    UpdateProjection([c EXCEPT !.mCameraSpecs = specs])

\* SetPosition(position)
SetPositionImpl(c, position) ==
    UpdateView([c EXCEPT !.mPosition = position])

\* SetOrientation(orientation): orientation is <<column 0, column 1, column 2>>.
SetOrientationImpl(c, orientation) ==
    UpdateView([c EXCEPT
        !.mForwardDirection = Normalize(orientation[3]),
        !.mRightDirection = Normalize(orientation[1]),
        !.mUpDirection = Normalize(orientation[2]),
        !.mYaw = Atan2Deg(orientation[3][1], orientation[3][3]),
        !.mPitch = AsinDeg(-orientation[3][2]),
        !.mRoll = Atan2Deg(orientation[1][2], orientation[2][2])])

\* SetLinearSpeed(speed), SetRotationSpeed(speed)
SetLinearSpeedImpl(c, speed) == [c EXCEPT !.mMoveSpeed = speed]

SetRotationSpeedImpl(c, speed) == [c EXCEPT !.mRotationSpeed = speed]

\* mDirection * speed, speed = mMoveSpeed * dt, dt = deltaTime / 1e9 seconds
\* (the duration is taken in whole milliseconds).
Scaled(direction, moveSpeed, deltaTime) ==
    Mul(direction, moveSpeed * (deltaTime \div (NanoSecondsTicksInOneSecond \div 1000)), 1000)

\* Mutant of Movement: the six tests are chained with else, so that only
\* the first active flag moves the camera.
Movement_Exclusive(c, deltaTime, movementFlags) ==
    LET fwd == Scaled(c.mForwardDirection, c.mMoveSpeed, deltaTime)
        rgt == Scaled(c.mRightDirection, c.mMoveSpeed, deltaTime)
        upw == Scaled(c.mUpDirection, c.mMoveSpeed, deltaTime)
    IN  IF HasFlag(movementFlags, Forward) THEN fwd
        ELSE IF HasFlag(movementFlags, Backward) THEN Neg(fwd)
        ELSE IF HasFlag(movementFlags, Left) THEN Neg(rgt)
        ELSE IF HasFlag(movementFlags, Right) THEN rgt
        ELSE IF HasFlag(movementFlags, Up) THEN upw
        ELSE IF HasFlag(movementFlags, Down) THEN Neg(upw)
        ELSE <<0, 0, 0>>

\* The movement vector of lines 101-109.
Movement(c, deltaTime, movementFlags) ==
    Let(<<0, 0, 0>>, LAMBDA m0 :
    Let(IF HasFlag(movementFlags, Forward)
        THEN Add(m0, Scaled(c.mForwardDirection, c.mMoveSpeed, deltaTime)) ELSE m0, LAMBDA m1 :
    Let(IF HasFlag(movementFlags, Backward)
        THEN Sub(m1, Scaled(c.mForwardDirection, c.mMoveSpeed, deltaTime)) ELSE m1, LAMBDA m2 :
    Let(IF HasFlag(movementFlags, Left)
        THEN Sub(m2, Scaled(c.mRightDirection, c.mMoveSpeed, deltaTime)) ELSE m2, LAMBDA m3 :
    Let(IF HasFlag(movementFlags, Right)
        THEN Add(m3, Scaled(c.mRightDirection, c.mMoveSpeed, deltaTime)) ELSE m3, LAMBDA m4 :
    Let(IF HasFlag(movementFlags, Up)
        THEN Add(m4, Scaled(c.mUpDirection, c.mMoveSpeed, deltaTime)) ELSE m4, LAMBDA m5 :
        IF HasFlag(movementFlags, Down)
        THEN Sub(m5, Scaled(c.mUpDirection, c.mMoveSpeed, deltaTime)) ELSE m5))))))

\* Mutant of ClampPitch: the test of line 121 is missing.
ClampPitch_UpperOnly(pitch) == IF pitch > 89 THEN 89 ELSE pitch

\* The pitch after lines 118-121.
ClampPitch(pitch) ==
    LET p1 == IF pitch > 89 THEN 89 ELSE pitch
    IN  IF p1 < -89 THEN -89 ELSE p1

\* mPitch after line 118, before the clamp.
RawPitch(c, mousePos) ==
    c.mPitch - Quot((mousePos[2] - c.mLastMouseY) * c.mRotationSpeed, 10)

\* The rotate branch of OnUpdate, lines 114-126.
Rotate(c, mousePos) ==
    LET dx == mousePos[1] - c.mLastMouseX
    IN  UpdateView([c EXCEPT
            !.mYaw = c.mYaw + Quot(dx * c.mRotationSpeed, 10),
            !.mPitch = ClampPitch(RawPitch(c, mousePos)),
            !.mLastMouseX = mousePos[1],
            !.mLastMouseY = mousePos[2]])

\* Mutant of OnUpdateImpl: UpdateView() is called after the rotate branch,
\* whether it was taken or not.
OnUpdateImpl_AlwaysUpdatesView(c, deltaTime, movementFlags, mousePos, rotate) ==
    LET moved == [c EXCEPT !.mPosition =
                     Add(c.mPosition, Movement(c, deltaTime, movementFlags))]
    IN  IF rotate THEN Rotate(moved, mousePos) ELSE UpdateView(moved)

\* OnUpdate(deltaTime, movementFlags, mousePos, rotate)
OnUpdateImpl(c, deltaTime, movementFlags, mousePos, rotate) ==
    LET moved == [c EXCEPT !.mPosition =
                     Add(c.mPosition, Movement(c, deltaTime, movementFlags))]
    IN  IF rotate THEN Rotate(moved, mousePos) ELSE moved

\* ------------------------------------------------------------- the inputs
\* EditorCameraSpecs values handed to SetCameraSpec.
SpecInputs ==
    { DefaultSpecs,
      [Fov |-> 1047, NearClip |-> 500, FarClip |-> 50000, AspectRatio |-> 1333] }

PositionInputs == { <<Scale, 2 * Scale, 3 * Scale>> }

LinearSpeedInputs == {5, 10}

RotationSpeedInputs == {1, 2}

DeltaTimeInputs == {500000000, 1000000000}

FlagInputs ==
    { {}, {Forward}, {Forward, Right}, {Forward, Backward},
      {Backward, Left, Up, Down} }

MouseInputs == { <<0, 0>>, <<300, 1000>>, <<-300, -1000>> }

\* The orthonormal basis with yaw y, pitch p and roll r: its z column is
\* the forward vector UpdateView derives from (y, p), its x and y columns
\* are the right and up vectors UpdateView derives, turned by r about z.
BasisOf(y, p, r) ==
    Let(UpdateView([Members EXCEPT !.mYaw = y, !.mPitch = p]), LAMBDA b :
        << Mul(Add(Mul(b.mRightDirection, Cos(r), 1),
                   Mul(b.mUpDirection, Sin(r), 1)), 1, Scale),
           Mul(Sub(Mul(b.mUpDirection, Cos(r), 1),
                   Mul(b.mRightDirection, Sin(r), 1)), 1, Scale),
           b.mForwardDirection >>)

\* The (yaw, pitch, roll) of the bases handed to SetOrientation.
BasisAngles ==
    { <<-90, 0, 0>>, <<30, 40, 0>>, <<30, 40, 30>>, <<-90, 89, 0>>,
      <<30, -89, 0>>, <<30, 90, 0>>, <<-90, -90, 0>> }

\* ------------------------------------------------------------ the machine
Assign(c) ==
    /\ mCameraSpecs' = c.mCameraSpecs
    /\ mPosition' = c.mPosition
    /\ mForwardDirection' = c.mForwardDirection
    /\ mRightDirection' = c.mRightDirection
    /\ mUpDirection' = c.mUpDirection
    /\ mYaw' = c.mYaw
    /\ mPitch' = c.mPitch
    /\ mRoll' = c.mRoll
    /\ mMoveSpeed' = c.mMoveSpeed
    /\ mRotationSpeed' = c.mRotationSpeed
    /\ mLastMouseX' = c.mLastMouseX
    /\ mLastMouseY' = c.mLastMouseY
    /\ mView' = c.mView
    /\ mProjection' = c.mProjection

\* The part of the camera's state space the model explores.
InModel(c) ==
    /\ Abs(c.mYaw) <= MaxYaw
    /\ MaxAbs(c.mPosition) <= MaxPos * Scale

Did(name, arg) ==
    /\ steps' = steps + 1
    /\ op' = [name |-> name, arg |-> arg]

Init ==
    /\ \E c \in {Constructed} :
            /\ mCameraSpecs = c.mCameraSpecs
            /\ mPosition = c.mPosition
            /\ mForwardDirection = c.mForwardDirection
            /\ mRightDirection = c.mRightDirection
            /\ mUpDirection = c.mUpDirection
            /\ mYaw = c.mYaw
            /\ mPitch = c.mPitch
            /\ mRoll = c.mRoll
            /\ mMoveSpeed = c.mMoveSpeed
            /\ mRotationSpeed = c.mRotationSpeed
            /\ mLastMouseX = c.mLastMouseX
            /\ mLastMouseY = c.mLastMouseY
            /\ mView = c.mView
            /\ mProjection = c.mProjection
    /\ op = [name |-> "EditorCamera", arg |-> <<>>]
    /\ steps = 0
    /\ lastRotate = <<0, 0>>
    /\ rawPitch = 0

SetCameraSpec(specs) ==
    /\ steps < MaxSteps
    /\ \E c \in {SetCameraSpecImpl(Cam, specs)} :
            /\ Assign(c)
            /\ Did("SetCameraSpec", specs)
            /\ UNCHANGED <<lastRotate, rawPitch>>

SetPosition(position) ==
    /\ steps < MaxSteps
    /\ \E c \in {SetPositionImpl(Cam, position)} :
            /\ InModel(c)
            /\ Assign(c)
            /\ Did("SetPosition", position)
            /\ UNCHANGED <<lastRotate, rawPitch>>

SetOrientation(angles) ==
    /\ steps < MaxSteps
    /\ \E c \in {SetOrientationImpl(Cam, BasisOf(angles[1], angles[2], angles[3]))} :
            /\ InModel(c)
            /\ Assign(c)
            /\ Did("SetOrientation", angles)
            /\ UNCHANGED <<lastRotate, rawPitch>>

OnUpdate(deltaTime, movementFlags, mousePos, rotate) ==
    /\ steps < MaxSteps
    /\ \E c \in {OnUpdateImpl(Cam, deltaTime, movementFlags, mousePos, rotate)} :
            /\ InModel(c)
            /\ Assign(c)
            /\ Did("OnUpdate", [deltaTime |-> deltaTime, movementFlags |-> movementFlags,
                                mousePos |-> mousePos, rotate |-> rotate])
            /\ lastRotate' = IF rotate THEN mousePos ELSE lastRotate
            /\ rawPitch' = IF rotate THEN RawPitch(Cam, mousePos) ELSE rawPitch

SetLinearSpeed(speed) ==
    /\ steps < MaxSteps
    /\ \E c \in {SetLinearSpeedImpl(Cam, speed)} :
            /\ Assign(c)
            /\ Did("SetLinearSpeed", speed)
            /\ UNCHANGED <<lastRotate, rawPitch>>

SetRotationSpeed(speed) ==
    /\ steps < MaxSteps
    /\ \E c \in {SetRotationSpeedImpl(Cam, speed)} :
            /\ Assign(c)
            /\ Did("SetRotationSpeed", speed)
            /\ UNCHANGED <<lastRotate, rawPitch>>

Next ==
    \/ \E specs \in SpecInputs : SetCameraSpec(specs)
    \/ \E position \in PositionInputs : SetPosition(position)
    \/ \E angles \in BasisAngles : SetOrientation(angles)
    \/ \E deltaTime \in DeltaTimeInputs, movementFlags \in FlagInputs,
          mousePos \in MouseInputs, rotate \in BOOLEAN :
            OnUpdate(deltaTime, movementFlags, mousePos, rotate)
    \/ \E speed \in LinearSpeedInputs : SetLinearSpeed(speed)
    \/ \E speed \in RotationSpeedInputs : SetRotationSpeed(speed)

Spec == Init /\ [][Next]_vars

\* ================================================================= claims
IsOnUpdate(o) == o.name = "OnUpdate"

IsRotate(o) == o.name = "OnUpdate" /\ o.arg.rotate

IsMoveOnly(o) == o.name = "OnUpdate" /\ ~o.arg.rotate

\* Equality within the rounding of the fixed-point arithmetic: one part in
\* a thousand of Scale * Scale for a product of two unit vectors.
Tolerance == (Scale * Scale) \div 1000

IsUnit(v) == Abs(Dot(v, v) - Scale * Scale) <= Tolerance

Orthogonal(a, b) == Abs(Dot(a, b)) <= Tolerance

\* C1: in every reachable state the stored pitch lies in [-89, 89] degrees.
C1_PitchInRange == mPitch >= -89 /\ mPitch <= 89

\* C2: a call OnUpdate(dt, flags, mousePos, rotate = false) changes only the
\* position: the angles, the basis vectors, the last recorded mouse
\* coordinates, the view matrix and the projection matrix (and the speeds
\* and the projection parameters) are the same before and after it.
C2_MoveOnlyFrame ==
    [][ IsMoveOnly(op') =>
            /\ mYaw' = mYaw /\ mPitch' = mPitch /\ mRoll' = mRoll
            /\ mForwardDirection' = mForwardDirection
            /\ mRightDirection' = mRightDirection
            /\ mUpDirection' = mUpDirection
            /\ mLastMouseX' = mLastMouseX /\ mLastMouseY' = mLastMouseY
            /\ mView' = mView /\ mProjection' = mProjection
            /\ mMoveSpeed' = mMoveSpeed /\ mRotationSpeed' = mRotationSpeed
            /\ mCameraSpecs' = mCameraSpecs ]_vars

\* C2 witness: the default camera after OnUpdate(1s, {Forward}, mousePos,
\* false) with a mousePos other than the recorded one: it has moved to the
\* origin and nothing else has followed.
C2_Witness ==
    /\ IsMoveOnly(op)
    /\ op.arg.movementFlags = {Forward}
    /\ op.arg.mousePos # <<mLastMouseX, mLastMouseY>>
    /\ mPosition # Constructed.mPosition
    /\ mView = Constructed.mView

\* C3: after OnUpdate with rotate = false the view matrix is the look-at
\* matrix of the new position with the forward and up vectors in effect.
C3_ViewFollowsPosition ==
    IsMoveOnly(op) =>
        mView = LookAt(mPosition, Add(mPosition, mForwardDirection), mUpDirection)

\* C4: SetCameraSpec changes only the stored projection parameters and the
\* projection matrix.
C4_SetCameraSpecFrame ==
    [][ op'.name = "SetCameraSpec" =>
            /\ mCameraSpecs' = op'.arg
            /\ mPosition' = mPosition
            /\ mYaw' = mYaw /\ mPitch' = mPitch /\ mRoll' = mRoll
            /\ mForwardDirection' = mForwardDirection
            /\ mRightDirection' = mRightDirection
            /\ mUpDirection' = mUpDirection
            /\ mMoveSpeed' = mMoveSpeed /\ mRotationSpeed' = mRotationSpeed
            /\ mLastMouseX' = mLastMouseX /\ mLastMouseY' = mLastMouseY
            /\ mView' = mView ]_vars

\* C4 witness: SetCameraSpec with other parameters has replaced the
\* projection matrix of a camera whose position has left the one its view
\* matrix was computed for.
C4_Witness ==
    /\ op.name = "SetCameraSpec"
    /\ mCameraSpecs # DefaultSpecs
    /\ mProjection # Constructed.mProjection
    /\ mView # LookAt(mPosition, Add(mPosition, mForwardDirection), mUpDirection)

\* The signed displacement one flag asks for, from the basis and the speed
\* the camera holds in the state the formula is read in.
FlagDisplacement(movement, deltaTime) ==
    LET ms == deltaTime \div 1000000
        step(direction) == Mul(direction, mMoveSpeed * ms, 1000)
    IN  CASE movement = Forward  -> step(mForwardDirection)
          [] movement = Backward -> Neg(step(mForwardDirection))
          [] movement = Right    -> step(mRightDirection)
          [] movement = Left     -> Neg(step(mRightDirection))
          [] movement = Up       -> step(mUpDirection)
          [] movement = Down     -> Neg(step(mUpDirection))

RECURSIVE SumDisplacements(_, _)
SumDisplacements(flags, deltaTime) ==
    IF flags = {} THEN <<0, 0, 0>>
    ELSE LET movement == CHOOSE m \in flags : TRUE
         IN  Add(FlagDisplacement(movement, deltaTime),
                 SumDisplacements(flags \ {movement}, deltaTime))

\* C5: OnUpdate translates the position by the sum, over the active flags,
\* of the signed basis vector times linearSpeed * dt, with the basis held
\* before the call (so the displacement of a set of flags is the sum of
\* the displacements of its flags alone, and an opposite pair gives none);
\* the default camera moved Forward for 1 s without rotation is at (0,0,0).
C5_Translation ==
    [][ IsOnUpdate(op') =>
            /\ Sub(mPosition', mPosition) =
                  SumDisplacements(op'.arg.movementFlags, op'.arg.deltaTime)
            /\ Sub(mPosition', mPosition) =
                  Movement(Cam, op'.arg.deltaTime, op'.arg.movementFlags)
            /\ \A m \in CameraMovement :
                  Movement(Cam, op'.arg.deltaTime, {m}) =
                      FlagDisplacement(m, op'.arg.deltaTime)
            /\ op'.arg.movementFlags = {Forward, Backward} => mPosition' = mPosition
            /\ ( /\ steps = 0
                 /\ op'.arg.movementFlags = {Forward}
                 /\ op'.arg.deltaTime = NanoSecondsTicksInOneSecond
                 /\ ~op'.arg.rotate ) => mPosition' = <<0, 0, 0>> ]_vars

\* C5 witness: OnUpdate with {Forward, Right} and rotate = true has moved
\* the camera and, in the same call, turned its basis.
C5_Witness ==
    /\ IsRotate(op)
    /\ op.arg.movementFlags = {Forward, Right}
    /\ steps = 2
    /\ mPosition # Constructed.mPosition
    /\ mForwardDirection # Constructed.mForwardDirection
    /\ mPitch # 0

\* C6: after any operation that recomputes the view matrix, forward, right
\* and up are mutually orthogonal and each has unit length.
C6_Orthonormal ==
    (op.name \in {"EditorCamera", "SetPosition", "SetOrientation"} \/ IsRotate(op)) =>
        /\ IsUnit(mForwardDirection) /\ IsUnit(mRightDirection) /\ IsUnit(mUpDirection)
        /\ Orthogonal(mForwardDirection, mRightDirection)
        /\ Orthogonal(mForwardDirection, mUpDirection)
        /\ Orthogonal(mRightDirection, mUpDirection)

\* C6 witness: an OnUpdate with rotate = true has left the pitch at the
\* clamp, with a yaw off the axes.
C6_Witness ==
    /\ IsRotate(op)
    /\ Abs(mPitch) = 89
    /\ mYaw % 90 # 0

\* The basis UpdateView derives from a yaw and a pitch, nothing else.
DerivedBasis(yaw, pitch) ==
    LET c == UpdateView([Members EXCEPT !.mYaw = yaw, !.mPitch = pitch])
    IN  <<c.mForwardDirection, c.mRightDirection, c.mUpDirection>>

RollInputs == {0, 30, 45, 180}

\* C7: in every state forward, right and up are the vectors UpdateView
\* derives from the current yaw and pitch alone, and SetOrientation with a
\* basis that differs only in roll (applied in place of, or after, the one
\* just applied) leaves the same angles, basis and view matrix.
C7_BasisDerived ==
    /\ <<mForwardDirection, mRightDirection, mUpDirection>> = DerivedBasis(mYaw, mPitch)
    /\ op.name = "SetOrientation" =>
          \A r \in RollInputs :
             LET c == SetOrientationImpl(Cam, BasisOf(op.arg[1], op.arg[2], r))
             IN  <<c.mForwardDirection, c.mRightDirection, c.mUpDirection,
                   c.mView, c.mYaw, c.mPitch>>
                 = <<mForwardDirection, mRightDirection, mUpDirection,
                     mView, mYaw, mPitch>>

\* C7 witness: SetOrientation was given a basis with roll, and the camera
\* stores a roll other than 0.
C7_Witness ==
    /\ op.name = "SetOrientation"
    /\ op.arg[3] # 0
    /\ mRoll # 0

\* C8: the projection matrix is the perspective projection whose field of
\* view is mCameraSpecs.Fov taken as radians, with the aspect ratio and
\* the clip planes of mCameraSpecs.
C8_ProjectionOfFov ==
    mProjection = Perspective(mCameraSpecs.Fov, mCameraSpecs.AspectRatio,
                              mCameraSpecs.NearClip, mCameraSpecs.FarClip)

\* clamp(p, -89, 89)
Clamp89(p) == IF p > 89 THEN 89 ELSE IF p < -89 THEN -89 ELSE p

\* C9: OnUpdate with rotate = true sets yaw to yaw + dx * rotationSpeed and
\* pitch to clamp(pitch - dy * rotationSpeed, -89, 89), (dx, dy) measured
\* from the mouse position of the latest call with rotate = true (or (0, 0)),
\* whatever calls with rotate = false came between, and records mousePos;
\* once the pitch has been driven past +-89 by any amount, a following
\* delta dy back moves it to +-89 - dy * rotationSpeed.
C9_Rotation ==
    [][ /\ <<mLastMouseX, mLastMouseY>> = lastRotate
        /\ IsMoveOnly(op') => <<mLastMouseX', mLastMouseY'>> = lastRotate
        /\ IsRotate(op') =>
              LET dx == op'.arg.mousePos[1] - lastRotate[1]
                  dy == op'.arg.mousePos[2] - lastRotate[2]
                  turn == Quot(dy * mRotationSpeed, 10)
              IN  /\ mYaw' = mYaw + Quot(dx * mRotationSpeed, 10)
                  /\ mPitch' = Clamp89(mPitch - turn)
                  /\ <<mLastMouseX', mLastMouseY'>> = op'.arg.mousePos
                  /\ (IsRotate(op) /\ rawPitch > 89 /\ turn >= 0 /\ turn <= 178)
                        => mPitch' = 89 - turn
                  /\ (IsRotate(op) /\ rawPitch < -89 /\ turn <= 0 /\ turn >= -178)
                        => mPitch' = -89 - turn ]_vars

\* C9 witness: an OnUpdate with rotate = true drove the pitch below -89 (to
\* -100 before the clamp), and the next one has brought it back by 100
\* degrees, to 11.
C9_Witness ==
    /\ IsRotate(op)
    /\ steps = 2
    /\ op.arg.mousePos = <<0, 0>>
    /\ mRotationSpeed = 1
    /\ mPitch = 11
    /\ rawPitch = 11

\* C10: for a roll-free basis B whose z column is the forward vector that
\* UpdateView derives from (y, p), p in [-89, 89], SetOrientation(B) leaves
\* yaw equal to y modulo 360, pitch equal to p and forward equal to B's z
\* column.
C10_SetOrientationInverts ==
    ( /\ op.name = "SetOrientation"
      /\ op.arg[3] = 0
      /\ Abs(op.arg[2]) <= 89 ) =>
        /\ (mYaw - op.arg[1]) % 360 = 0
        /\ mPitch = op.arg[2]
        /\ mForwardDirection = BasisOf(op.arg[1], op.arg[2], 0)[3]

====
